---- MODULE Spec2Model ----
(***************************************************************************)
(* Model of the thumbnail composition engine of src/app.py:                *)
(*   create_thumbnail -> create_gradient_background                        *)
(*                    -> create_emoji_background (get_emoji_image, cached)  *)
(*                    -> add_text_overlay (wrap_text)                       *)
(* Real numbers are modelled exactly as rationals: the size multiplier is  *)
(* mult / MultDen, and int(...) of a product is an integer division.       *)
(* Texts are sequences of one-character strings.                           *)
(***************************************************************************)
EXTENDS Integers, Sequences, FiniteSets, TLC

VARIABLES
    pc,              \* position of the running call
    entry,           \* the function that was called from outside
    renders,         \* number of calls returned so far (streamlit reruns the script)
    size,            \* canvas side length
    colors,          \* palette chosen by create_gradient_background (0 = none yet)
    fdown,           \* the rounding direction of the gradient's float arithmetic
    emojis,          \* data['emojis']
    quotes,          \* data['quotes'], the caller's list (sorted in place)
    quotes0,         \* the list as it was when the running call was made
    emojis0,         \* data['emojis'] as it was when the running call was made
    mult,            \* text_size_multiplier = mult / MultDen
    fontEnv,         \* environment: "truetype" (a font path loads) or "default"
    emoji_positions, \* the flat, shuffled glyph list
    ei,              \* index into emoji_positions of the next instance
    pasted,          \* glyph instances pasted onto the canvas, in order
    shapes,          \* fallback ellipses drawn on the canvas
    cache,           \* st.cache_data of get_emoji_image: glyph -> image
    requests,        \* HTTP GETs issued, per glyph
    bodyRuns,        \* executions of get_emoji_image's body, per glyph
    base_font,       \* result of the font probing ("none" when no path loads)
    qi,              \* index into quotes of the next quote
    y_offset,        \* the vertical cursor
    trace,           \* one record per processed quote
    drawn,           \* text lines drawn on the canvas, in order
    wtext, wfont, wmax, wlines,   \* a direct call wrap_text(wtext, font(wfont), wmax)
    err              \* the exception that left the called function ("none" if none)

vars == <<pc, entry, renders, size, colors, fdown, emojis, quotes, quotes0, emojis0,
          mult, fontEnv,
          emoji_positions, ei, pasted, shapes, cache, requests, bodyRuns,
          base_font, qi, y_offset, trace, drawn, wtext, wfont, wmax, wlines, err>>

-----------------------------------------------------------------------------
(* Program constants *)

CanvasSize == 1024
EmojiSize == 64
MinCount == 2
FallbackShapes == 80
NumCircleColors == 6
BaseDivisor == 4
ImportanceScale == 10
MinFontBase == 150
MaxFontDivisor == 2
StartDivisor == 12
SideMargins == 120
BottomMargin == 100
QuoteGap == 40
SpacingDivisor == 4
OutlineWidth == 4
DefaultMult == 7
MultDen == 20

(* Bounds of the model *)

MaxGradientSize == 64
MaxEmojis == 2
MaxInstances == 11
OverWeight == 11
MaxQuotes == 3
OverImportance == 25
MaxTextLen == 7
MaxRenders == 2

-----------------------------------------------------------------------------
(* Arithmetic helpers *)

Max(a, b) == IF a >= b THEN a ELSE b
Min(a, b) == IF a <= b THEN a ELSE b

\* Python's int(n / d) for d > 0: truncation toward zero.
Trunc(n, d) == IF n >= 0 THEN n \div d ELSE -((-n) \div d)

RECURSIVE SumSeq(_)
SumSeq(s) == IF s = <<>> THEN 0 ELSE Head(s) + SumSeq(Tail(s))

Range(s) == {s[i] : i \in DOMAIN s}

-----------------------------------------------------------------------------
(* create_gradient_background *)

Palettes ==
    << << <<240, 248, 255>>, <<176, 196, 222>> >>,
       << <<255, 248, 240>>, <<255, 218, 185>> >>,
       << <<248, 255, 248>>, <<200, 255, 200>> >>,
       << <<255, 240, 245>>, <<255, 182, 193>> >>,
       << <<248, 248, 255>>, <<221, 160, 221>> >> >>

\* A faulty variant of GradientRow: start and end colour exchanged.
GradientRowSwapped(cs, n, y, down) ==
    [c \in 1..3 |-> (cs[2][c] * (n - y) + cs[1][c] * y) \div n]

RECURSIVE IsPowerOfTwo(_)
IsPowerOfTwo(n) == n = 1 \/ (n > 1 /\ n % 2 = 0 /\ IsPowerOfTwo(n \div 2))

\* Row y of the gradient: int(start * (1 - y/n) + end * (y/n)) per channel.
\* The code computes this in floating point. Where the exact value is an
\* integer and y > 0, the float can land just below it and int() then gives
\* one less (it does for n = 7, y = 3, 255 -> 254); `down` is that rounding
\* direction, chosen by the caller. For y = 0 the ratio is 0.0, and for n a
\* power of two every intermediate value is a dyadic rational a double holds:
\* the result is exact.
GradientRow(cs, n, y, down) ==
    [c \in 1..3 |->
        LET num == cs[1][c] * (n - y) + cs[2][c] * y
        IN  IF down /\ y > 0 /\ num % n = 0 /\ ~IsPowerOfTwo(n)
            THEN (num \div n) - 1
            ELSE num \div n]

-----------------------------------------------------------------------------
(* Glyphs, images and get_emoji_image *)

\* "mic" is a single code point; "flag" is a sequence of two code points, for
\* which ord() raises TypeError.
Glyphs == {"mic", "flag"}
SingleCodepoint(g) == g # "flag"

NoImage == [kind |-> "none", glyph |-> "", color |-> 0]
Twemoji(g) == [kind |-> "twemoji", glyph |-> g, color |-> 0]
Circle(c) == [kind |-> "circle", glyph |-> "", color |-> c]

\* The GETs one execution of the body issues: the SVG request (its response is
\* discarded) and the PNG request; none when ord() raises before them.
BodyRequests(g) == IF SingleCodepoint(g) THEN 2 ELSE 0

\* The images one execution of the body can return.
BodyImages(g) ==
    (IF SingleCodepoint(g) THEN {Twemoji(g)} ELSE {})
        \cup {Circle(c) : c \in 1..NumCircleColors}

\* A faulty variant of CacheStore: the result is not memoized.
CacheStoreNone(c, g, image) == c

\* st.cache_data: the result of the body is stored under the arguments.
CacheStore(c, g, image) == [c EXCEPT ![g] = image]

CacheHit(g) == cache[g] # NoImage

-----------------------------------------------------------------------------
(* create_emoji_background *)

WeightValues == {0, 3, OverWeight}

EmojiEntries ==
    [emoji : Glyphs, weight : WeightValues, form : {"ok"}]
        \cup { [emoji |-> "mic", weight |-> 3, form |-> f] :
                  f \in {"no_weight", "str_weight", "no_emoji"} }

\* A faulty variant of InstanceCount: the floor of two instances is missing.
InstanceCountNoFloor(e) == Max(0, e.weight)

\* count = max(2, emoji_data['weight'])
InstanceCount(e) == Max(MinCount, e.weight)

RECURSIVE TotalInstances(_)
TotalInstances(es) ==
    IF es = <<>> THEN 0 ELSE InstanceCount(Head(es)) + TotalInstances(Tail(es))

RECURSIVE Repeat(_, _)
Repeat(x, n) == IF n <= 0 THEN <<>> ELSE <<x>> \o Repeat(x, n - 1)

\* The flat list: each glyph repeated its count, in list order.
RECURSIVE FlatList(_)
FlatList(es) ==
    IF es = <<>> THEN <<>>
    ELSE Repeat(Head(es).emoji, InstanceCount(Head(es))) \o FlatList(Tail(es))

CountOf(x, s) == Cardinality({i \in DOMAIN s : s[i] = x})

RemoveFirst(x, s) ==
    LET i == CHOOSE k \in DOMAIN s : s[k] = x /\ \A j \in 1..(k - 1) : s[j] # x
    IN  SubSeq(s, 1, i - 1) \o SubSeq(s, i + 1, Len(s))

\* random.shuffle: every ordering of the list is a possible outcome.
RECURSIVE Shuffles(_)
Shuffles(s) ==
    IF s = <<>> THEN {<<>>}
    ELSE UNION { { <<x>> \o t : t \in Shuffles(RemoveFirst(x, s)) } : x \in Range(s) }

Malformed(es) == \E i \in DOMAIN es : es[i].form # "ok"

EmojiLists ==
    { es \in UNION { [1..n -> EmojiEntries] : n \in 0..MaxEmojis } :
        TotalInstances(es) <= MaxInstances }

-----------------------------------------------------------------------------
(* Fonts and text measurement *)

\* A font is its kind and its size. A TrueType font scales with its size;
\* ImageFont.load_default() is a fixed-size font whatever size was asked for.
Font(kind, fsize) == [kind |-> kind, fsize |-> fsize]

CharWidth(c, font) ==
    IF font.kind = "default" THEN 6
    ELSE CASE c = "W" -> font.fsize
           [] c = "a" -> (font.fsize * 5) \div 10
           [] OTHER   -> (font.fsize * 3) \div 10

RECURSIVE TextWidth(_, _)
\* bbox[2] - bbox[0] of textbbox((0, 0), line, font)
TextWidth(line, font) ==
    IF line = <<>> THEN 0
    ELSE CharWidth(Head(line), font) + TextWidth(Tail(line), font)

\* bbox[3] - bbox[1] of textbbox((0, 0), line, font): a line with a capital
\* is taller than a line of small letters.
TextHeight(line, font) ==
    IF line = <<>> THEN 0
    ELSE IF font.kind = "default" THEN 11
    ELSE IF \E i \in DOMAIN line : line[i] = "W" THEN (font.fsize * 8) \div 10
    ELSE (font.fsize * 5) \div 10

-----------------------------------------------------------------------------
(* wrap_text *)

RECURSIVE SplitFrom(_, _, _)
SplitFrom(text, word, words) ==
    IF text = <<>> THEN (IF word = <<>> THEN words ELSE Append(words, word))
    ELSE IF Head(text) = " "
         THEN SplitFrom(Tail(text), <<>>,
                        IF word = <<>> THEN words ELSE Append(words, word))
         ELSE SplitFrom(Tail(text), Append(word, Head(text)), words)

\* text.split(): the maximal runs of non-space characters.
Split(text) == SplitFrom(text, <<>>, <<>>)

RECURSIVE Join(_)
\* ' '.join(words)
Join(words) ==
    IF words = <<>> THEN <<>>
    ELSE IF Len(words) = 1 THEN words[1]
    ELSE words[1] \o <<" ">> \o Join(Tail(words))

\* A faulty variant of WrapLoop: a word that does not fit on an empty line is dropped.
RECURSIVE WrapLoopDrop(_, _, _, _, _)
WrapLoopDrop(words, lines, current_line, font, max_width) ==
    IF words = <<>>
    THEN (IF current_line # <<>> THEN Append(lines, Join(current_line)) ELSE lines)
    ELSE LET word == Head(words)
             test_width == TextWidth(Join(Append(current_line, word)), font)
         IN  IF test_width <= max_width
             THEN WrapLoopDrop(Tail(words), lines, Append(current_line, word), font, max_width)
             ELSE IF current_line # <<>>
                  THEN WrapLoopDrop(Tail(words), Append(lines, Join(current_line)),
                                    <<word>>, font, max_width)
                  ELSE WrapLoopDrop(Tail(words), lines, current_line, font, max_width)

RECURSIVE WrapLoop(_, _, _, _, _)
\* The loop over the words and the final flush of current_line.
WrapLoop(words, lines, current_line, font, max_width) ==
    IF words = <<>>
    THEN (IF current_line # <<>> THEN Append(lines, Join(current_line)) ELSE lines)
    ELSE LET word == Head(words)
             test_width == TextWidth(Join(Append(current_line, word)), font)
         IN  IF test_width <= max_width
             THEN WrapLoop(Tail(words), lines, Append(current_line, word), font, max_width)
             ELSE IF current_line # <<>>
                  THEN WrapLoop(Tail(words), Append(lines, Join(current_line)),
                                <<word>>, font, max_width)
                  ELSE WrapLoop(Tail(words), Append(lines, word), current_line,
                                font, max_width)

wrap_text(text, font, max_width) == WrapLoop(Split(text), <<>>, <<>>, font, max_width)

-----------------------------------------------------------------------------
(* add_text_overlay: pure parts *)

\* A faulty variant of FontSize: the clamp to [150 m, (size/2) m] is missing.
FontSizeUnclamped(sz, importance, k) ==
    Trunc((sz \div BaseDivisor) * importance * k, ImportanceScale * MultDen)

\* font_size = int(base_size * (importance / 10) * m), then
\* max(int(150 * m), min(font_size, int(size // 2 * m))), with m = k / MultDen.
FontSize(sz, importance, k) ==
    LET base_size == sz \div BaseDivisor
        raw == Trunc(base_size * importance * k, ImportanceScale * MultDen)
        lo  == Trunc(MinFontBase * k, MultDen)
        hi  == Trunc((sz \div MaxFontDivisor) * k, MultDen)
    IN  Max(lo, Min(raw, hi))

\* A faulty variant of InsertDesc: the quote goes before the quotes of equal importance.
RECURSIVE InsertDescBeforeTies(_, _)
InsertDescBeforeTies(q, sorted) ==
    IF sorted = <<>> THEN <<q>>
    ELSE IF Head(sorted).importance > q.importance
         THEN <<Head(sorted)>> \o InsertDescBeforeTies(q, Tail(sorted))
         ELSE <<q>> \o sorted

RECURSIVE InsertDesc(_, _)
\* q goes after every quote whose importance is at least its own.
InsertDesc(q, sorted) ==
    IF sorted = <<>> THEN <<q>>
    ELSE IF Head(sorted).importance >= q.importance
         THEN <<Head(sorted)>> \o InsertDesc(q, Tail(sorted))
         ELSE <<q>> \o sorted

RECURSIVE SortFrom(_, _)
SortFrom(qs, sorted) ==
    IF qs = <<>> THEN sorted ELSE SortFrom(Tail(qs), InsertDesc(Head(qs), sorted))

\* quotes.sort(key=importance, reverse=True): descending, and stable (equal
\* keys keep their order, also under reverse=True).
SortDesc(qs) == SortFrom(qs, <<>>)

\* A faulty variant of Fits: the bottom margin is missing.
FitsNoMargin(y, total_height, sz) == y + total_height < sz

\* A faulty variant of Fits: a block ending exactly at the limit is accepted.
FitsInclusive(y, total_height, sz) == y + total_height <= sz - BottomMargin

\* if y_offset + total_height < size - 100
Fits(y, total_height, sz) == y + total_height < sz - BottomMargin

LineHeights(lines, font) == [i \in DOMAIN lines |-> TextHeight(lines[i], font)]

\* total_height: the line heights plus line_spacing * (len(lines) - 1).
TotalHeight(lines, font, font_size) ==
    SumSeq(LineHeights(lines, font))
        + (font_size \div SpacingDivisor) * (Len(lines) - 1)

\* A faulty variant of AdvanceCursor: no spacing is added after the last line.
AdvanceCursorNoTrailing(y, lines, font, font_size) ==
    y + TotalHeight(lines, font, font_size) + QuoteGap

\* current_y after the loop over the lines, plus 40: every line, the last one
\* included, advances current_y by line_height + line_spacing.
AdvanceCursor(y, lines, font, font_size) ==
    y + SumSeq([i \in DOMAIN lines |->
                   TextHeight(lines[i], font) + font_size \div SpacingDivisor])
      + QuoteGap

RECURSIVE LineTops(_, _, _, _)
\* current_y at the start of each line of a rendered block.
LineTops(y, lines, font, font_size) ==
    IF lines = <<>> THEN <<>>
    ELSE <<y>> \o LineTops(y + TextHeight(Head(lines), font) + font_size \div SpacingDivisor,
                           Tail(lines), font, font_size)

-----------------------------------------------------------------------------
(* Inputs *)

Chars == {"a", "W", " "}

TextA     == <<"a">>
TextWWWW  == <<"W", " ", "W", " ", "W", " ", "W">>
TextEmpty == <<>>

QuoteTexts == {TextA, TextWWWW, TextEmpty}
ImportanceValues == {7, ImportanceScale, OverImportance}

\* A quote whose 'importance' is a one-digit string carries the digit: strings
\* of one digit compare as their digits do.
QuoteEntries ==
    [text : QuoteTexts, importance : ImportanceValues, form : {"ok"}]
        \cup { [text |-> TextA, importance |-> 7, form |-> f] :
                  f \in {"no_importance", "str_importance", "no_text"} }

QuoteLists == UNION { [1..n -> QuoteEntries] : n \in 0..MaxQuotes }

NoCache == [g \in Glyphs |-> NoImage]
NoCount == [g \in Glyphs |-> 0]

StartPc(f) ==
    CASE f = "create_thumbnail"           -> "gradient"
      [] f = "create_gradient_background" -> "gradient"
      [] f = "create_emoji_background"    -> "collage"
      [] f = "add_text_overlay"           -> "text"
      [] f = "wrap_text"                  -> "wrap"

\* The state before a call of f, apart from its arguments and the environment.
Fresh(f) ==
    /\ entry = f
    /\ pc = StartPc(f)
    /\ renders = 0
    /\ colors = 0
    /\ fdown = FALSE
    /\ emoji_positions = <<>>
    /\ ei = 0
    /\ pasted = <<>>
    /\ shapes = 0
    /\ cache = NoCache
    /\ requests = NoCount
    /\ bodyRuns = NoCount
    /\ base_font = "none"
    /\ qi = 0
    /\ y_offset = 0
    /\ trace = <<>>
    /\ drawn = <<>>
    /\ wlines = <<>>
    /\ err = "none"

NoWrapCall == wtext = <<>> /\ wfont = 0 /\ wmax = 0

\* The lists the call is given are the caller's lists.
ListGiven == quotes0 = quotes /\ emojis0 = emojis

-----------------------------------------------------------------------------
(* Control flow between the stages *)

\* Where control goes when stage f returns: to the caller if f was called
\* directly, else to the next statement of create_thumbnail.
AfterStage(f, next) == IF entry = f THEN "done" ELSE next

Returned(p) == IF p = "done" THEN renders + 1 ELSE renders

-----------------------------------------------------------------------------
(* create_gradient_background, lines 334-361 *)

\* The canvas the function returns: row r of the image (rows are numbered from
\* 1 here) holds size pixels of the colour of gradient row r - 1. The pixel
\* buffer is a function of the palette and the rounding direction, which is
\* what the state keeps.
img ==
    IF colors = 0 THEN <<>>
    ELSE [r \in 1..size |-> GradientRow(Palettes[colors], size, r - 1, fdown)]

GradientBackground ==
    /\ pc = "gradient"
    /\ colors' \in DOMAIN Palettes
    /\ fdown' \in IF IsPowerOfTwo(size) THEN {FALSE} ELSE BOOLEAN
    /\ pc' = AfterStage("create_gradient_background", "collage")
    /\ renders' = Returned(pc')
    /\ UNCHANGED <<entry, size, emojis, quotes0, emojis0, quotes, mult, fontEnv, emoji_positions, ei,
                   pasted, shapes, cache, requests, bodyRuns, base_font, qi, y_offset,
                   trace, drawn, wtext, wfont, wmax, wlines, err>>

-----------------------------------------------------------------------------
(* create_emoji_background, lines 363-410 *)

\* Lines 366-376: the flat list is built and shuffled.
CollageBuild ==
    /\ pc = "collage"
    /\ ~Malformed(emojis)
    /\ emoji_positions' \in Shuffles(FlatList(emojis))
    /\ ei' = 1
    /\ pc' = "paste"
    /\ UNCHANGED <<entry, renders, size, colors, fdown, emojis, quotes0, emojis0, quotes, mult, fontEnv,
                   pasted, shapes, cache, requests, bodyRuns, base_font, qi, y_offset,
                   trace, drawn, wtext, wfont, wmax, wlines, err>>

\* Lines 399-410: a KeyError or TypeError while the flat list is built (before
\* any paste) is caught and the 80 ellipses are drawn instead.
CollageFallback ==
    /\ pc = "collage"
    /\ Malformed(emojis)
    /\ shapes' = FallbackShapes
    /\ pc' = AfterStage("create_emoji_background", "text")
    /\ renders' = Returned(pc')
    /\ UNCHANGED <<entry, size, colors, fdown, emojis, quotes0, emojis0, quotes, mult, fontEnv,
                   emoji_positions, ei, pasted, cache, requests, bodyRuns, base_font,
                   qi, y_offset, trace, drawn, wtext, wfont, wmax, wlines, err>>

\* One iteration of lines 379-397 whose get_emoji_image call is a cache hit.
PasteHit ==
    /\ pc = "paste"
    /\ ei <= Len(emoji_positions)
    /\ CacheHit(emoji_positions[ei])
    /\ pasted' = Append(pasted, [glyph |-> emoji_positions[ei],
                                 image |-> cache[emoji_positions[ei]]])
    /\ ei' = ei + 1
    /\ UNCHANGED <<pc, entry, renders, size, colors, fdown, emojis, quotes0, emojis0, quotes, mult, fontEnv,
                   emoji_positions, shapes, cache, requests, bodyRuns, base_font, qi,
                   y_offset, trace, drawn, wtext, wfont, wmax, wlines, err>>

\* One iteration of lines 379-397 whose get_emoji_image call runs the body
\* (lines 16-57): the requests are issued, and the image is the downloaded one
\* or the circle of a random colour.
PasteMiss ==
    /\ pc = "paste"
    /\ ei <= Len(emoji_positions)
    /\ ~CacheHit(emoji_positions[ei])
    /\ \E image \in BodyImages(emoji_positions[ei]) :
          /\ cache' = CacheStore(cache, emoji_positions[ei], image)
          /\ pasted' = Append(pasted, [glyph |-> emoji_positions[ei], image |-> image])
    /\ requests' = [requests EXCEPT ![emoji_positions[ei]] =
                        @ + BodyRequests(emoji_positions[ei])]
    /\ bodyRuns' = [bodyRuns EXCEPT ![emoji_positions[ei]] = @ + 1]
    /\ ei' = ei + 1
    /\ UNCHANGED <<pc, entry, renders, size, colors, fdown, emojis, quotes0, emojis0, quotes, mult, fontEnv,
                   emoji_positions, shapes, base_font, qi, y_offset, trace, drawn,
                   wtext, wfont, wmax, wlines, err>>

\* The loop of line 379 is exhausted and the function returns.
CollageReturn ==
    /\ pc = "paste"
    /\ ei > Len(emoji_positions)
    /\ pc' = AfterStage("create_emoji_background", "text")
    /\ renders' = Returned(pc')
    /\ UNCHANGED <<entry, size, colors, fdown, emojis, quotes0, emojis0, quotes, mult, fontEnv,
                   emoji_positions, ei, pasted, shapes, cache, requests, bodyRuns,
                   base_font, qi, y_offset, trace, drawn, wtext, wfont, wmax, wlines, err>>

-----------------------------------------------------------------------------
(* add_text_overlay, lines 437-546 *)

HasNoImportance(qs) == \E i \in DOMAIN qs : qs[i].form = "no_importance"

\* A string key and an integer key meet in a comparison of the sort.
MixedKeys(qs) ==
    \E i, j \in DOMAIN qs :
        qs[i].form = "str_importance" /\ qs[j].form # "str_importance"

\* Lines 439-465: the list is sorted in place, a font path is probed, the
\* cursor starts at size // 12.
TextBegin ==
    /\ pc = "text"
    /\ ~HasNoImportance(quotes)
    /\ ~MixedKeys(quotes)
    /\ quotes' = SortDesc(quotes)
    /\ base_font' = IF fontEnv = "bold" THEN "bold" ELSE "none"
    /\ y_offset' = size \div StartDivisor
    /\ qi' = 1
    /\ pc' = "quote"
    /\ UNCHANGED <<entry, renders, size, colors, fdown, emojis, quotes0, emojis0, mult, fontEnv,
                   emoji_positions, ei, pasted, shapes, cache, requests, bodyRuns,
                   trace, drawn, wtext, wfont, wmax, wlines, err>>

\* Line 439 raises. The key function raises KeyError before anything is
\* moved; a TypeError of a comparison leaves the list in some order.
TextSortRaises ==
    /\ pc = "text"
    /\ HasNoImportance(quotes) \/ MixedKeys(quotes)
    /\ IF HasNoImportance(quotes)
       THEN quotes' = quotes /\ err' = "KeyError"
       ELSE quotes' \in Shuffles(quotes) /\ err' = "TypeError"
    /\ pc' = "raised"
    /\ UNCHANGED <<entry, renders, size, colors, fdown, emojis, quotes0, emojis0, mult, fontEnv,
                   emoji_positions, ei, pasted, shapes, cache, requests, bodyRuns,
                   base_font, qi, y_offset, trace, drawn, wtext, wfont, wmax, wlines>>

\* The font of lines 475-501: the probed path or a system font at font_size,
\* else the built-in default font.
QuoteFont(font_size) ==
    Font(IF base_font # "none" \/ fontEnv = "system" THEN "truetype" ELSE "default",
         font_size)

\* One iteration of the loop of line 467, lines 468-546.
TextQuote ==
    /\ pc = "quote"
    /\ qi <= Len(quotes)
    /\ quotes[qi].form = "ok"
    /\ LET quote       == quotes[qi]
           font_size   == FontSize(size, quote.importance, mult)
           font        == QuoteFont(font_size)
           lines       == wrap_text(quote.text, font, size - SideMargins)
           total       == TotalHeight(lines, font, font_size)
           fits        == Fits(y_offset, total, size)
           tops        == LineTops(y_offset, lines, font, font_size)
           next_y      == IF fits THEN AdvanceCursor(y_offset, lines, font, font_size)
                          ELSE y_offset
       IN  /\ trace' = Append(trace,
                  [index |-> qi, importance |-> quote.importance,
                   font_size |-> font_size, lines |-> lines,
                   line_heights |-> LineHeights(lines, font),
                   total_height |-> total, y_before |-> y_offset,
                   y_after |-> next_y, rendered |-> fits])
           /\ drawn' = IF fits
                       THEN drawn \o [i \in DOMAIN lines |->
                               [quote |-> qi, line |-> lines[i],
                                x |-> (size - TextWidth(lines[i], font)) \div 2,
                                y |-> tops[i], outline |-> OutlineWidth]]
                       ELSE drawn
           /\ y_offset' = next_y
    /\ qi' = qi + 1
    /\ UNCHANGED <<pc, entry, renders, size, colors, fdown, emojis, quotes0, emojis0, quotes, mult, fontEnv,
                   emoji_positions, ei, pasted, shapes, cache, requests, bodyRuns,
                   base_font, wtext, wfont, wmax, wlines, err>>

\* Line 470 raises TypeError on a string importance (str / int); line 473
\* raises KeyError when the quote has no 'text'.
TextQuoteRaises ==
    /\ pc = "quote"
    /\ qi <= Len(quotes)
    /\ quotes[qi].form # "ok"
    /\ err' = IF quotes[qi].form = "str_importance" THEN "TypeError" ELSE "KeyError"
    /\ pc' = "raised"
    /\ UNCHANGED <<entry, renders, size, colors, fdown, emojis, quotes0, emojis0, quotes, mult, fontEnv,
                   emoji_positions, ei, pasted, shapes, cache, requests, bodyRuns,
                   base_font, qi, y_offset, trace, drawn, wtext, wfont, wmax, wlines>>

\* The loop of line 467 is exhausted: add_text_overlay returns, and with it
\* create_thumbnail (line 332).
TextReturn ==
    /\ pc = "quote"
    /\ qi > Len(quotes)
    /\ pc' = "done"
    /\ renders' = renders + 1
    /\ UNCHANGED <<entry, size, colors, fdown, emojis, quotes0, emojis0, quotes, mult, fontEnv,
                   emoji_positions, ei, pasted, shapes, cache, requests, bodyRuns,
                   base_font, qi, y_offset, trace, drawn, wtext, wfont, wmax, wlines, err>>

-----------------------------------------------------------------------------
(* A direct call of wrap_text, lines 412-435 *)

WrapCall ==
    /\ pc = "wrap"
    /\ wlines' = wrap_text(wtext, Font(fontEnv, wfont), wmax)
    /\ pc' = "done"
    /\ renders' = renders + 1
    /\ UNCHANGED <<entry, size, colors, fdown, emojis, quotes0, emojis0, quotes, mult, fontEnv,
                   emoji_positions, ei, pasted, shapes, cache, requests, bodyRuns,
                   base_font, qi, y_offset, trace, drawn, wtext, wfont, wmax, err>>

-----------------------------------------------------------------------------
(* main, lines 93-105: streamlit runs the script again, and the function is *)
(* called again on a new canvas with the data of the session state, the     *)
(* slider's value, and the process-wide cache.                                *)

Rerun ==
    /\ pc = "done"
    /\ renders < MaxRenders
    /\ pc' = StartPc(entry)
    /\ mult' \in IF entry = "create_thumbnail" THEN {DefaultMult, MultDen} ELSE {mult}
    /\ colors' = 0
    /\ fdown' = FALSE
    /\ emoji_positions' = <<>>
    /\ ei' = 0
    /\ pasted' = <<>>
    /\ shapes' = 0
    /\ base_font' = "none"
    /\ qi' = 0
    /\ y_offset' = 0
    /\ trace' = <<>>
    /\ drawn' = <<>>
    /\ quotes0' = quotes
    /\ emojis0' = emojis
    /\ UNCHANGED <<entry, renders, size, emojis, quotes, fontEnv, cache, requests,
                   bodyRuns, wtext, wfont, wmax, wlines, err>>

-----------------------------------------------------------------------------
(* Specifications *)

\* The whole render, create_thumbnail(data, m), and its reruns.
RenderEmojiLists ==
    { es \in EmojiLists :
        /\ Len(es) <= 1
        /\ \A i \in DOMAIN es : es[i].form \in {"ok", "no_weight"} /\ es[i].weight > 0 }

RenderQuoteLists ==
    { qs \in QuoteLists :
        /\ Len(qs) <= 2
        /\ \A i \in DOMAIN qs : qs[i].text = TextA }

Init ==
    /\ Fresh("create_thumbnail")
    /\ size = CanvasSize
    /\ emojis \in RenderEmojiLists
    /\ quotes \in RenderQuoteLists
    /\ mult \in {DefaultMult, MultDen}
    /\ fontEnv \in {"bold", "system", "default"}
    /\ NoWrapCall
    /\ ListGiven

Next ==
    \/ GradientBackground
    \/ CollageBuild
    \/ CollageFallback
    \/ PasteHit
    \/ PasteMiss
    \/ CollageReturn
    \/ TextBegin
    \/ TextSortRaises
    \/ TextQuote
    \/ TextQuoteRaises
    \/ TextReturn
    \/ Rerun

Spec == Init /\ [][Next]_vars

\* create_gradient_background(size) alone, for every size up to
\* MaxGradientSize and for the size create_thumbnail uses.
InitGradient ==
    /\ Fresh("create_gradient_background")
    /\ size \in (1..MaxGradientSize) \cup {CanvasSize}
    /\ emojis = <<>>
    /\ quotes = <<>>
    /\ mult = MultDen
    /\ fontEnv = "bold"
    /\ NoWrapCall
    /\ ListGiven

NextGradient == GradientBackground

SpecGradient == InitGradient /\ [][NextGradient]_vars

\* create_emoji_background(img, size, emojis) alone, called again on rerun.
InitCollage ==
    /\ Fresh("create_emoji_background")
    /\ size = CanvasSize
    /\ emojis \in EmojiLists
    /\ quotes = <<>>
    /\ mult = MultDen
    /\ fontEnv = "bold"
    /\ NoWrapCall
    /\ ListGiven

NextCollage ==
    \/ CollageBuild
    \/ CollageFallback
    \/ PasteHit
    \/ PasteMiss
    \/ CollageReturn
    \/ Rerun

SpecCollage == InitCollage /\ [][NextCollage]_vars

\* add_text_overlay(img, size, quotes, m) alone.
InitText ==
    /\ Fresh("add_text_overlay")
    /\ size = CanvasSize
    /\ emojis = <<>>
    /\ quotes \in QuoteLists
    /\ mult \in {DefaultMult, MultDen}
    /\ fontEnv \in {"bold", "default"}
    /\ NoWrapCall
    /\ ListGiven

NextText ==
    \/ TextBegin
    \/ TextSortRaises
    \/ TextQuote
    \/ TextQuoteRaises
    \/ TextReturn

SpecText == InitText /\ [][NextText]_vars

\* add_text_overlay on two well-formed quotes, for every importance around
\* [1, 10] and every multiplier k / MultDen in (0, 1].
FontImportances == 0..(ImportanceScale + 2)

InitFont ==
    /\ Fresh("add_text_overlay")
    /\ size = CanvasSize
    /\ emojis = <<>>
    /\ quotes \in [1..2 -> [text : {TextA}, importance : FontImportances, form : {"ok"}]]
    /\ mult \in 1..MultDen
    /\ fontEnv = "bold"
    /\ NoWrapCall
    /\ ListGiven

NextFont ==
    \/ TextBegin
    \/ TextQuote
    \/ TextReturn

SpecFont == InitFont /\ [][NextFont]_vars

\* wrap_text(text, font, max_width) alone, for every text of at most
\* MaxTextLen characters.
WrapTexts == UNION { [1..n -> Chars] : n \in 0..MaxTextLen }
WrapFontSizes == { FontSize(CanvasSize, i, MultDen) : i \in ImportanceValues }
WrapWidths == { CanvasSize - SideMargins, CanvasSize \div 2 - SideMargins }

InitWrap ==
    /\ Fresh("wrap_text")
    /\ size = CanvasSize
    /\ emojis = <<>>
    /\ quotes = <<>>
    /\ mult = MultDen
    /\ fontEnv \in {"truetype", "default"}
    /\ wtext \in WrapTexts
    /\ wfont \in WrapFontSizes
    /\ wmax \in WrapWidths
    /\ ListGiven

NextWrap == WrapCall

SpecWrap == InitWrap /\ [][NextWrap]_vars

\* add_text_overlay on well-formed quotes whose blocks fill the canvas to its
\* lower limit: importances at the low clamp, below the maximum and beyond
\* the range, on short, wrapping and empty texts.
FitImportances == {ImportanceScale \div 2, ImportanceScale - 1, OverImportance}

FitQuoteLists ==
    UNION { [1..n -> [text : QuoteTexts, importance : FitImportances, form : {"ok"}]] :
              n \in 0..MaxQuotes }

InitFit ==
    /\ Fresh("add_text_overlay")
    /\ size = CanvasSize
    /\ emojis = <<>>
    /\ quotes \in FitQuoteLists
    /\ mult \in {DefaultMult, MultDen}
    /\ fontEnv \in {"bold", "default"}
    /\ NoWrapCall
    /\ ListGiven

NextFit ==
    \/ TextBegin
    \/ TextQuote
    \/ TextReturn

SpecFit == InitFit /\ [][NextFit]_vars

-----------------------------------------------------------------------------
(* Properties *)

Abs(n) == IF n >= 0 THEN n ELSE -n

Clamp(v) == Max(1, Min(v, ImportanceScale))

\* The lines drawn for the quote at position i of the sorted list.
DrawnOf(i) == { d \in DOMAIN drawn : drawn[d].quote = i }

\* The list is one the data model allows: every quote has a non-empty text
\* and an integer importance in [1, 10].
ValidQuotes ==
    \A i \in DOMAIN quotes :
        /\ quotes[i].form = "ok"
        /\ quotes[i].text # <<>>
        /\ quotes[i].importance \in 1..ImportanceScale

C2_WrapRoundTrip ==
    (entry = "wrap_text" /\ pc = "done") =>
        /\ Join(wlines) = Join(Split(wtext))
        /\ \A i \in DOMAIN wlines :
              /\ wlines[i] # <<>>
              /\ TextWidth(wlines[i], Font(fontEnv, wfont)) > wmax
                    => Len(Split(wlines[i])) = 1

\* A wrapped text with a line of several words and an over-wide single word.
C2_Witness ==
    /\ entry = "wrap_text"
    /\ pc = "done"
    /\ Len(wlines) >= 2
    /\ wtext # Join(wlines)
    /\ \E i \in DOMAIN wlines : Len(Split(wlines[i])) >= 2
    /\ \E i \in DOMAIN wlines : TextWidth(wlines[i], Font(fontEnv, wfont)) > wmax

\* The number of instances the entries of the list give glyph g: the sum of
\* the larger of 2 and the weight.
ExpectedInstances(g) ==
    SumSeq([i \in DOMAIN emojis |->
               IF emojis[i].emoji # g THEN 0
               ELSE IF emojis[i].weight > 2 THEN emojis[i].weight ELSE 2])

PastedGlyphs == [i \in DOMAIN pasted |-> pasted[i].glyph]

\* C3 (instance count): for a list of well-formed entries the shuffled flat
\* list holds each glyph sum max(2, weight) times, the pastes follow it
\* element by element, and on return exactly that many instances are pasted.
C3_InstanceCount ==
    (~Malformed(emojis) /\ pc \in {"paste", "text", "quote", "done", "raised"}) =>
        /\ \A g \in Glyphs : CountOf(g, emoji_positions) = ExpectedInstances(g)
        /\ PastedGlyphs = SubSeq(emoji_positions, 1, Len(pasted))
        /\ pc # "paste" =>
              /\ Len(pasted) = SumSeq([i \in DOMAIN emojis |-> Max(2, emojis[i].weight)])
              /\ shapes = 0

\* A list of two glyphs, one of weight below 2, has been pasted entirely.
C3_Witness ==
    /\ pc = "done"
    /\ Len(emojis) = 2
    /\ emojis[1].emoji # emojis[2].emoji
    /\ \E i \in DOMAIN emojis : emojis[i].weight < 2
    /\ \E i \in DOMAIN emojis : emojis[i].weight > 2
    /\ Len(pasted) = 5
    /\ pasted[1].glyph # emojis[1].emoji

\* C4 as stated (clamping): the instances of a glyph are those of the weights
\* clamped to [1, 10], and the font size of a quote is that of its importance
\* clamped to [1, 10].
C4_Clamped ==
    /\ (~Malformed(emojis) /\ pc \in {"text", "quote", "done", "raised"}) =>
          \A g \in Glyphs :
              CountOf(g, PastedGlyphs) =
                  SumSeq([i \in DOMAIN emojis |->
                             IF emojis[i].emoji # g THEN 0
                             ELSE Max(2, Clamp(emojis[i].weight))])
    /\ \A i \in DOMAIN trace :
          trace[i].font_size = FontSize(size, Clamp(trace[i].importance), mult)

\* C5 as stated (render never raises): no exception leaves create_thumbnail.
C5_NeverRaises == pc # "raised"

LastRowNear(tolerance) ==
    \A c \in 1..3 : Abs(img[size][c] - Palettes[colors][2][c]) <= tolerance

\* C6 as stated (gradient end points, every size >= 1): row 0 is the start
\* colour and row size - 1 is within 1 per channel of the end colour.
C6_EndPointsAnySize ==
    (entry = "create_gradient_background" /\ pc = "done") =>
        /\ img[1] = Palettes[colors][1]
        /\ LastRowNear(1)

\* C6 as amended: the same for every size of at least 45, the least size from
\* which (start - end) / size is below 2 for every channel of every palette.
C6_EndPointsFromSize45 ==
    (entry = "create_gradient_background" /\ pc = "done" /\ size >= 45) =>
        /\ img[1] = Palettes[colors][1]
        /\ LastRowNear(1)

\* A canvas of 45 rows whose last row is near the end colour without being it.
C6_Witness ==
    /\ entry = "create_gradient_background"
    /\ pc = "done"
    /\ size = 45
    /\ LastRowNear(1)
    /\ ~LastRowNear(0)

\* C7 as stated (one fetch per glyph): no glyph is requested more than once.
C7_AtMostOneRequest == \A g \in Glyphs : requests[g] <= 1

\* C7 as amended: over all renders the body of get_emoji_image runs at most
\* once per glyph and issues at most two requests (the SVG one and the PNG
\* one); every other resolve is a cache hit, and every instance of a glyph is
\* pasted with the image the first resolve stored.
C7_BodyOncePerGlyph ==
    /\ \A g \in Glyphs :
          /\ bodyRuns[g] <= 1
          /\ requests[g] <= 2
          /\ requests[g] = BodyRequests(g) * bodyRuns[g]
          /\ (bodyRuns[g] = 1) <=> CacheHit(g)
    /\ \A i \in DOMAIN pasted : pasted[i].image = cache[pasted[i].glyph]

\* In a second render a glyph fetched in the first one is pasted again.
C7_Witness ==
    /\ renders = 1
    /\ Len(pasted) >= 2
    /\ pasted[1].glyph = "mic"
    /\ pasted[2].glyph = "mic"
    /\ requests["mic"] = 2
    /\ bodyRuns["flag"] = 1

OfImportance(qs, v) ==
    LET Test(q) == q.importance = v IN SelectSeq(qs, Test)

\* C8 (descending, stable order): after the sort the list is in descending
\* importance, the quotes of each importance are in their input order, and
\* the quotes are processed in the order of the list.
C8_StableDescending ==
    (entry = "add_text_overlay" /\ pc \in {"quote", "done"}) =>
        /\ \A i, j \in DOMAIN quotes :
              i < j => quotes[i].importance >= quotes[j].importance
        /\ \A v \in ImportanceValues : OfImportance(quotes, v) = OfImportance(quotes0, v)
        /\ Len(quotes) = Len(quotes0)
        /\ \A i \in DOMAIN trace :
              /\ trace[i].index = i
              /\ trace[i].importance = quotes[i].importance

\* A list given out of order, with two different quotes of equal importance,
\* has been processed to its end.
C8_Witness ==
    /\ entry = "add_text_overlay"
    /\ pc = "done"
    /\ Len(trace) = 3
    /\ quotes0[1].importance < quotes0[3].importance
    /\ quotes0[1].importance = quotes0[2].importance
    /\ quotes0[1].text # quotes0[2].text
    /\ quotes # quotes0

\* C9 (font size range and monotonicity): for importances in [1, 10] the font
\* size lies in [int(150 m), int((size / 2) m)] and a quote of higher
\* importance never has a smaller font.
C9_FontSizeRange ==
    \A i \in DOMAIN trace :
        trace[i].importance \in 1..ImportanceScale =>
            /\ trace[i].font_size >= (MinFontBase * mult) \div MultDen
            /\ trace[i].font_size <= ((size \div 2) * mult) \div MultDen
            /\ \A j \in DOMAIN trace :
                  (/\ trace[j].importance \in 1..ImportanceScale
                   /\ trace[i].importance <= trace[j].importance)
                      => trace[i].font_size <= trace[j].font_size

\* Two quotes of different importance in [1, 10] got different font sizes
\* under a multiplier below 1, the smaller one at the lower bound.
C9_Witness ==
    /\ pc = "done"
    /\ mult = DefaultMult
    /\ Len(trace) = 2
    /\ trace[1].importance = ImportanceScale
    /\ trace[2].importance = 1
    /\ trace[2].font_size = (MinFontBase * mult) \div MultDen
    /\ trace[1].font_size > trace[2].font_size

\* C10 as stated (cursor advance): for a list of valid quotes, a rendered
\* quote moves the cursor by its block height (n line heights and n - 1
\* spacings) plus 40.
C10_AdvanceByBlockHeight ==
    ValidQuotes =>
        \A i \in DOMAIN trace :
            trace[i].rendered =>
                trace[i].y_after = trace[i].y_before + trace[i].total_height + QuoteGap

\* C10 as amended: the cursor starts at size // 12, a skipped quote leaves it
\* unchanged, and a rendered quote of n lines moves it by the n line heights
\* plus n spacings of font_size // 4 (one after every line, the last
\* included) plus 40.
C10_AdvanceWithTrailingSpacing ==
    /\ \A i \in DOMAIN trace :
          /\ trace[i].y_before =
                (IF i = 1 THEN size \div 12 ELSE trace[i - 1].y_after)
          /\ trace[i].total_height =
                SumSeq(trace[i].line_heights)
                    + (trace[i].font_size \div 4) * (Len(trace[i].lines) - 1)
          /\ trace[i].y_after =
                (IF trace[i].rendered
                 THEN trace[i].y_before + SumSeq(trace[i].line_heights)
                         + Len(trace[i].lines) * (trace[i].font_size \div 4) + 40
                 ELSE trace[i].y_before)
    /\ trace # <<>> => y_offset = trace[Len(trace)].y_after
    /\ (pc = "quote" /\ trace = <<>>) => y_offset = size \div 12

\* A quote of two lines was rendered, a later one was skipped, and one after
\* that was rendered.
C10_Witness ==
    /\ ValidQuotes
    /\ Len(trace) = 3
    /\ trace[1].rendered /\ Len(trace[1].lines) = 2
    /\ ~trace[2].rendered
    /\ trace[3].rendered
    /\ y_offset > trace[3].y_before

\* The lines drawn for the quote at position i, in the order they were drawn.
DrawnSeqOf(i) ==
    LET OfQuote(d) == d.quote = i IN SelectSeq(drawn, OfQuote)

\* The vertical extent of the block of quote i: from the cursor to the cursor
\* plus the block height. A rendered quote without lines has no extent.
BlockTop(i) == trace[i].y_before
BlockEnd(i) == trace[i].y_before + trace[i].total_height
HasBlock(i) == trace[i].rendered /\ trace[i].lines # <<>>

\* Every rendered block lies within [size / 12, size - 100].
BlocksInBounds ==
    \A i \in DOMAIN trace :
        HasBlock(i) =>
            /\ BlockTop(i) >= size \div 12
            /\ BlockTop(i) <= BlockEnd(i)
            /\ BlockEnd(i) <= size - 100

\* A rendered block starts at or below the end of every block rendered before
\* it plus 40: the extents are pairwise disjoint.
BlocksApart ==
    \A i, j \in DOMAIN trace :
        (i < j /\ HasBlock(i) /\ HasBlock(j)) => BlockTop(j) >= BlockEnd(i) + 40

\* A rendered quote has every wrapped line drawn, in order, one below the
\* other inside its block; a skipped quote has none.
BlocksWhole ==
    \A i \in DOMAIN trace :
        LET ds == DrawnSeqOf(i)
        IN  IF trace[i].rendered
            THEN /\ Len(ds) = Len(trace[i].lines)
                 /\ \A k \in DOMAIN ds :
                       /\ ds[k].line = trace[i].lines[k]
                       /\ ds[k].y >= BlockTop(i)
                       /\ ds[k].y + trace[i].line_heights[k] <= BlockEnd(i)
                       /\ k > 1 => ds[k].y >= ds[k - 1].y + trace[i].line_heights[k - 1]
            ELSE ds = <<>>

\* C11 as stated (layout within bounds, exact fit rendered): for a list of
\* valid quotes the rendered blocks lie within [size / 12, size - 100], are
\* at least 40 apart, are drawn with all their lines, and a quote whose
\* cursor plus block height equals size - 100 is rendered.
C11_ExactFitRendered ==
    ValidQuotes =>
        /\ BlocksInBounds
        /\ BlocksApart
        /\ BlocksWhole
        /\ \A i \in DOMAIN trace :
              BlockEnd(i) = size - BottomMargin => trace[i].rendered

\* C11 as amended (exact fit skipped): the rendered blocks lie within
\* [size / 12, size - 100), are at least 40 apart and are drawn with all
\* their lines; a quote is rendered exactly when its cursor plus block height
\* is strictly below size - 100, so a block that would end exactly at
\* size - 100 is skipped.
C11_ExactFitSkipped ==
    /\ BlocksInBounds
    /\ BlocksApart
    /\ BlocksWhole
    /\ \A i \in DOMAIN trace :
          /\ trace[i].rendered <=> BlockEnd(i) < size - BottomMargin
          /\ BlockEnd(i) = size - BottomMargin => DrawnSeqOf(i) = <<>>

\* After a block of two lines and a block of one line were rendered, a quote
\* whose block would end exactly at size - 100 was skipped.
C11_Witness ==
    /\ ValidQuotes
    /\ \E i, j, k \in DOMAIN trace :
          /\ i < j /\ j < k
          /\ HasBlock(i) /\ Len(trace[i].lines) >= 2
          /\ HasBlock(j)
          /\ BlockEnd(k) = size - BottomMargin
          /\ ~trace[k].rendered
          /\ DrawnSeqOf(k) = <<>>

\* C12 as stated (render leaves its inputs unchanged): when
\* create_thumbnail(data, m) has returned on well-formed data, the caller's
\* quotes list has the elements it had before the call in the same order, and
\* so has the emoji list.
C12_InputsUnchanged ==
    (entry = "create_thumbnail" /\ pc = "done" /\ ValidQuotes /\ ~Malformed(emojis)) =>
        /\ quotes = quotes0
        /\ emojis = emojis0

====
